---- MODULE Spec2Model ----
(***************************************************************************)
(* State-machine model of rhasspytts_wavenet_hermes.TtsHermesMqtt:         *)
(* the async generator handle_say, the message router on_message, the     *)
(* cache key get_sentence_hash and the estimator get_wav_duration.         *)
(*                                                                         *)
(* One request task runs per inbound TtsSay.  A task is suspended where    *)
(* handle_say hands control away: at each `yield` (the consumer of the    *)
(* generator publishes the event) and at the `await asyncio.wait_for`.     *)
(* Everything between two such points is one atomic action.                *)
(* wait_for returns when the event is set and raises TimeoutError when     *)
(* wav_timeout has passed with the event unset.  Times are in              *)
(* milliseconds.  handle_get_voices (lines 202-209) and the warning for    *)
(* an unexpected message (line 233) touch none of this state and are left  *)
(* out.                                                                    *)
(***************************************************************************)
EXTENDS Integers, Sequences, FiniteSets, TLC

VARIABLES
    play_command,          \* self.play_command (None or a command template)
    wavenet_client,        \* self.wavenet_client (None or a client handle)
    cache,                 \* <wavenet_dir>/cache/<hash>.wav : key -> content
    play_finished_events,  \* self.play_finished_events : id -> asyncio.Event
    pc,                    \* position of each handle_say task
    say,                   \* the TtsSay message of each task
    wav_bytes,             \* local wav_bytes of each task
    finished_event,        \* is the task's asyncio.Event (line 140) set
    wav_timeout,           \* local wav_timeout of each task (ms)
    waited,                \* time the task has spent in wait_for (ms)
    events,                \* events yielded by each task, in order
    log,                   \* _LOGGER warnings of each task
    synth_calls,           \* synthesize_speech calls made by each task
    cache_writes,          \* completed cache writes of each task (line 175)
    hash_in,               \* inputs of get_sentence_hash under study
    hash_out               \* its result

vars == <<play_command, wavenet_client, cache, play_finished_events, pc, say,
          wav_bytes, finished_event, wav_timeout, waited, events, log,
          synth_calls, cache_writes, hash_in, hash_out>>

serverVars == <<play_command, wavenet_client, cache, play_finished_events, pc,
                say, wav_bytes, finished_event, wav_timeout, waited, events,
                log, synth_calls, cache_writes>>

-----------------------------------------------------------------------------
(* Bounds *)

\* number of TtsSay messages received in one run
MaxReqs == 2

\* longest text / voice / gender string given to get_sentence_hash
MaxLen == 2

Reqs == 1..MaxReqs

-----------------------------------------------------------------------------
(* Values *)

None == "None"

\* self.finished_timeout_extra, in ms
finished_timeout_extra == 250

\* the header size get_wav_duration subtracts
WavHeaderSize == 44

\* Byte strings are named; WavInfo gives what the code reads from each:
\* its length, whether wave.open accepts it, sample width and frame rate.
\* wavA is one 16-bit frame at 4 Hz (250 ms); junk is no WAV container.
EmptyBytes == "b''"
NoFile == "NoFile"

WavInfo ==
    [ wavA |-> [len |-> 46, riff |-> TRUE,  width |-> 2, rate |-> 4],
      junk |-> [len |-> 10, riff |-> FALSE, width |-> 0, rate |-> 0] ]

BytesLen(b) == IF b = EmptyBytes THEN 0 ELSE WavInfo[b].len

\* Python truthiness of an Optional[bytes] / Optional[str] value
Truthy(v) == v # None /\ v # EmptyBytes /\ v # ""

\* what response.audio_content can be
ProviderBytes == {"wavA", "junk", EmptyBytes}

\* the TtsSay messages received
SayInputs ==
    { [text |-> "a", id |-> "i1", site_id |-> "s1", session_id |-> "x1", lang |-> "en"],
      [text |-> "a", id |-> None, site_id |-> None, session_id |-> None, lang |-> None] }

NoSay == [text |-> "", id |-> None, site_id |-> None, session_id |-> None, lang |-> None]

\* str(uuid4()): a fresh identifier, distinct for each task
Uuid(r) == "uuid" \o ToString(r)

\* the process-wide synthesis configuration of the server under study
language_code == "en"
voice == "v"
gender == "F"
sample_rate == 16

-----------------------------------------------------------------------------
(* get_sentence_hash, lines 237-252: the string handed to md5.  The digest *)
(* is taken to be injective, so the string stands for the fingerprint.     *)

Join5(a, b, c, d, e) == a \o "_" \o b \o "_" \o c \o "_" \o d \o "_" \o e

HashKey(sentence, lang_code, voice_name, gender_name, rate) ==
    Join5(sentence, lang_code \o "-" \o voice_name, gender_name,
          ToString(rate), lang_code)

get_sentence_hash(sentence) ==
    HashKey(sentence, language_code, voice, gender, sample_rate)

CacheKeys == { get_sentence_hash(m.text) : m \in SayInputs }

-----------------------------------------------------------------------------
(* get_wav_duration, lines 254-267 *)

\* wave.open raises wave.Error, or the final division raises
get_wav_duration_raises(b) ==
    \/ ~WavInfo[b].riff
    \/ WavInfo[b].width = 0
    \/ WavInfo[b].rate = 0

\* (len(wav_bytes) - 44) / width / rate, as milliseconds
get_wav_duration(b) ==
    ((BytesLen(b) - WavHeaderSize) * 1000) \div (WavInfo[b].width * WavInfo[b].rate)

-----------------------------------------------------------------------------
(* Outbound events *)

\* the error of handle_say published as the wrong event class
TtsError_AsPlayError(e, m) ==
    [type |-> "AudioPlayError", error |-> e, context |-> m.id,
     site_id |-> m.site_id, session_id |-> m.session_id]

\* the error published without the session of the request
TtsError_NoSession(e, m) ==
    [type |-> "TtsError", error |-> e, context |-> m.id,
     site_id |-> m.site_id, session_id |-> None]

TtsError(e, m) ==
    [type |-> "TtsError", error |-> e, context |-> m.id,
     site_id |-> m.site_id, session_id |-> m.session_id]

AudioPlayError(e, m) ==
    [type |-> "AudioPlayError", error |-> e, context |-> m.id,
     site_id |-> m.site_id, session_id |-> m.session_id]

\* playBytes published without the site of the request
AudioPlayBytes_NoSite(w, m, rid) ==
    [type |-> "AudioPlayBytes", wav_bytes |-> w, site_id |-> None,
     request_id |-> rid]

AudioPlayBytes(w, m, rid) ==
    [type |-> "AudioPlayBytes", wav_bytes |-> w, site_id |-> m.site_id,
     request_id |-> rid]

TtsSayFinished(m) ==
    [type |-> "TtsSayFinished", id |-> m.id, site_id |-> m.site_id,
     session_id |-> m.session_id]

\* request_id = say.id or str(uuid4()), line 165
RequestId(r, m) == IF Truthy(m.id) THEN m.id ELSE Uuid(r)

\* every key play_finished_events can get, and one no task ever uses
EventIds == { m.id : m \in { x \in SayInputs : Truthy(x.id) } }
            \cup { Uuid(r) : r \in Reqs }
SignalIds == EventIds \cup {"i9"}

NoEvent == 0

\* outcomes of the open/write at lines 174-175: written, open() raised
\* (file untouched), or the write raised after open() truncated the file
WriteOutcomes == {"ok", "open_fails", "write_fails"}

\* outcomes of synthesize_speech: it raises, or response.audio_content
SynthOutcomes == ProviderBytes \cup {"raise"}

-----------------------------------------------------------------------------
(* Initial state: TtsHermesMqtt.__init__, lines 27-72 *)

ServerInit ==
    /\ play_command \in {None, "aplay -l {lang}"}
    /\ wavenet_client \in {None, "client"}
    /\ cache = [k \in CacheKeys |-> NoFile]
    /\ play_finished_events = [i \in EventIds |-> NoEvent]
    /\ pc = [r \in Reqs |-> "idle"]
    /\ say = [r \in Reqs |-> NoSay]
    /\ wav_bytes = [r \in Reqs |-> None]
    /\ finished_event = [r \in Reqs |-> FALSE]
    /\ wav_timeout = [r \in Reqs |-> 0]
    /\ waited = [r \in Reqs |-> 0]
    /\ events = [r \in Reqs |-> <<>>]
    /\ log = [r \in Reqs |-> {}]
    /\ synth_calls = [r \in Reqs |-> 0]
    /\ cache_writes = [r \in Reqs |-> 0]

HashIdle == hash_in = None /\ hash_out = None

Init == ServerInit /\ HashIdle

-----------------------------------------------------------------------------
(* handle_say, lines 76-198 *)

\* the cache file after open(cached_wav_path, "wb") and write, lines 174-175
FileAfterWrite(old, w, wr) ==
    IF wr = "ok" THEN w
    ELSE IF wr = "write_fails" THEN EmptyBytes
    ELSE old

\* Lines 173-183 and the except clause at 187-194: write the cache file,
\* estimate the duration, start waiting.  evs are the events yielded so far.
SaveAndWait(r, m, w, wr, evs) ==
    LET key == get_sentence_hash(m.text)
        err == IF wr # "ok" THEN "OSError"
               ELSE IF get_wav_duration_raises(w) THEN "wave.Error"
               ELSE None
    IN  /\ cache' = [cache EXCEPT ![key] = FileAfterWrite(@, w, wr)]
        /\ cache_writes' = [cache_writes EXCEPT ![r] = IF wr = "ok" THEN @ + 1 ELSE @]
        /\ IF err # None
           THEN /\ events' = [events EXCEPT ![r] = Append(evs, TtsError(err, m))]
                /\ pc' = [pc EXCEPT ![r] = "yield_TtsError"]
                /\ UNCHANGED <<wav_timeout, waited>>
           ELSE /\ events' = [events EXCEPT ![r] = evs]
                /\ pc' = [pc EXCEPT ![r] = "waiting"]
                /\ wav_timeout' = [wav_timeout EXCEPT ![r] =
                                      get_wav_duration(w) + finished_timeout_extra]
                /\ waited' = [waited EXCEPT ![r] = 0]

\* the event is left unset after the local player has run
SetAfterLocalPlay_Forgotten(f, r) == f

\* finished_event.set() after subprocess.run, line 154
SetAfterLocalPlay(f, r) == [f EXCEPT ![r] = TRUE]

\* the event is not put into the map
Register_Skipped(pfe, rid, r) == pfe

\* an entry already under the id is kept (setdefault)
Register_KeepFirst(pfe, rid, r) ==
    IF pfe[rid] # NoEvent THEN pfe ELSE [pfe EXCEPT ![rid] = r]

\* self.play_finished_events[request_id] = finished_event, line 166
Register(pfe, rid, r) == [pfe EXCEPT ![rid] = r]

\* the local branch is never taken
UseLocalPlayer_Never == FALSE

\* if self.play_command, line 143
UseLocalPlayer == Truthy(play_command)

\* the provider is called whatever the cache holds
NeedSynthesis_Always(cached) == TRUE

\* if not wav_bytes, line 102: nothing usable came from the cache
NeedSynthesis(cached) == ~Truthy(cached)

\* Lines 87-171 (and on to 183 when the local player succeeds): from the
\* arrival of the message to the first point where the task is suspended.
HandleSay(r, m, read_fails, synth, play_fails, wr) ==
    LET key == get_sentence_hash(m.text)
        found == cache[key]
        read_raises == found # NoFile /\ read_fails
        cached == IF found # NoFile THEN found ELSE None
        need_synth == ~read_raises /\ NeedSynthesis(cached)
        no_client == need_synth /\ wavenet_client = None
        call == need_synth /\ ~no_client
        synth_raises == call /\ synth = "raise"
        wav == IF call /\ ~synth_raises THEN synth ELSE cached
        err == IF read_raises THEN "OSError"
               ELSE IF no_client THEN "No Wavenet Client"
               ELSE IF synth_raises THEN "synthesize_speech"
               ELSE IF ~Truthy(wav) THEN "No WAV data received"
               ELSE None
        rid == RequestId(r, m)
    IN  /\ pc[r] = "idle"
        /\ \A q \in Reqs : q < r => pc[q] # "idle"
        /\ say' = [say EXCEPT ![r] = m]
        /\ synth_calls' = [synth_calls EXCEPT ![r] = IF call THEN 1 ELSE 0]
        /\ wav_bytes' = [wav_bytes EXCEPT ![r] = IF read_raises THEN None ELSE wav]
        /\ UNCHANGED <<play_command, wavenet_client, log, hash_in, hash_out>>
        /\ IF err # None
           THEN \* except Exception, line 187
                /\ events' = [events EXCEPT ![r] = <<TtsError(err, m)>>]
                /\ pc' = [pc EXCEPT ![r] = "yield_TtsError"]
                /\ UNCHANGED <<cache, cache_writes, play_finished_events,
                               finished_event, wav_timeout, waited>>
           ELSE IF ~Truthy(wav)
           THEN \* if wav_bytes, line 139, is false: straight to finally
                /\ events' = [events EXCEPT ![r] = <<TtsSayFinished(m)>>]
                /\ pc' = [pc EXCEPT ![r] = "done"]
                /\ UNCHANGED <<cache, cache_writes, play_finished_events,
                               finished_event, wav_timeout, waited>>
           ELSE IF UseLocalPlayer
           THEN IF play_fails
                THEN \* except Exception, line 155
                     /\ events' = [events EXCEPT ![r] =
                                      <<AudioPlayError("play_command", m)>>]
                     /\ pc' = [pc EXCEPT ![r] = "yield_AudioPlayError"]
                     /\ UNCHANGED <<cache, cache_writes, play_finished_events,
                                    finished_event, wav_timeout, waited>>
                ELSE \* finished_event.set(), line 154, then straight on
                     /\ finished_event' = SetAfterLocalPlay(finished_event, r)
                     /\ SaveAndWait(r, m, wav, wr, <<>>)
                     /\ UNCHANGED play_finished_events
           ELSE \* lines 165-171
                /\ play_finished_events' = Register(play_finished_events, rid, r)
                /\ events' = [events EXCEPT ![r] = <<AudioPlayBytes(wav, m, rid)>>]
                /\ pc' = [pc EXCEPT ![r] = "yield_AudioPlayBytes"]
                /\ UNCHANGED <<cache, cache_writes, finished_event, wav_timeout,
                               waited>>

\* the except clause of the local player returns: after an AudioPlayError
\* the task goes straight to the finally clause
ResumeAfterPlay_ReturnOnPlayError(r, wr) ==
    /\ pc[r] \in {"yield_AudioPlayError", "yield_AudioPlayBytes"}
    /\ IF pc[r] = "yield_AudioPlayError"
       THEN /\ events' = [events EXCEPT ![r] = Append(@, TtsSayFinished(say[r]))]
            /\ pc' = [pc EXCEPT ![r] = "done"]
            /\ UNCHANGED <<cache, cache_writes, wav_timeout, waited>>
       ELSE SaveAndWait(r, say[r], wav_bytes[r], wr, events[r])
    /\ UNCHANGED <<play_command, wavenet_client, play_finished_events, say,
                   wav_bytes, finished_event, log, synth_calls, hash_in,
                   hash_out>>

\* The consumer asks for the next event after an AudioPlayError or an
\* AudioPlayBytes: lines 173-183.
ResumeAfterPlay(r, wr) ==
    /\ pc[r] \in {"yield_AudioPlayError", "yield_AudioPlayBytes"}
    /\ SaveAndWait(r, say[r], wav_bytes[r], wr, events[r])
    /\ UNCHANGED <<play_command, wavenet_client, play_finished_events, say,
                   wav_bytes, finished_event, log, synth_calls, hash_in,
                   hash_out>>

\* finished_event.wait() returns inside the timeout, then finally: line 196
WaitFinished(r) ==
    /\ pc[r] = "waiting"
    /\ finished_event[r]
    /\ events' = [events EXCEPT ![r] = Append(@, TtsSayFinished(say[r]))]
    /\ pc' = [pc EXCEPT ![r] = "done"]
    /\ UNCHANGED <<play_command, wavenet_client, cache, play_finished_events,
                   say, wav_bytes, finished_event, wav_timeout, waited, log,
                   synth_calls, cache_writes, hash_in,
                   hash_out>>

\* the TimeoutError is not caught at line 184 and reaches line 187
WaitTimeout_AsError(r) ==
    /\ pc[r] = "waiting"
    /\ ~finished_event[r]
    /\ waited[r] >= wav_timeout[r]
    /\ events' = [events EXCEPT ![r] = Append(@, TtsError("TimeoutError", say[r]))]
    /\ pc' = [pc EXCEPT ![r] = "yield_TtsError"]
    /\ UNCHANGED <<play_command, wavenet_client, cache, play_finished_events,
                   say, wav_bytes, finished_event, wav_timeout, waited, log,
                   synth_calls, cache_writes, hash_in,
                   hash_out>>

\* asyncio.TimeoutError, lines 184-185, then finally: line 196
WaitTimeout(r) ==
    /\ pc[r] = "waiting"
    /\ ~finished_event[r]
    /\ waited[r] >= wav_timeout[r]
    /\ log' = [log EXCEPT ![r] = @ \cup {"Did not receive playFinished before timeout"}]
    /\ events' = [events EXCEPT ![r] = Append(@, TtsSayFinished(say[r]))]
    /\ pc' = [pc EXCEPT ![r] = "done"]
    /\ UNCHANGED <<play_command, wavenet_client, cache, play_finished_events,
                   say, wav_bytes, finished_event, wav_timeout, waited,
                   synth_calls, cache_writes, hash_in,
                   hash_out>>

\* the generator ends after the TtsError, with no finally clause
ResumeAfterError_NoFinally(r) ==
    /\ pc[r] = "yield_TtsError"
    /\ pc' = [pc EXCEPT ![r] = "done"]
    /\ UNCHANGED <<play_command, wavenet_client, cache, play_finished_events,
                   say, wav_bytes, finished_event, wav_timeout, waited, events,
                   log, synth_calls, cache_writes, hash_in,
                   hash_out>>

\* The consumer asks for the next event after a TtsError: finally, line 196
ResumeAfterError(r) ==
    /\ pc[r] = "yield_TtsError"
    /\ events' = [events EXCEPT ![r] = Append(@, TtsSayFinished(say[r]))]
    /\ pc' = [pc EXCEPT ![r] = "done"]
    /\ UNCHANGED <<play_command, wavenet_client, cache, play_finished_events,
                   say, wav_bytes, finished_event, wav_timeout, waited, log,
                   synth_calls, cache_writes, hash_in,
                   hash_out>>

\* Time passes for every task inside wait_for, one grace period at a time.
Tick ==
    /\ \E r \in Reqs : pc[r] = "waiting" /\ waited[r] < wav_timeout[r]
    /\ waited' = [r \in Reqs |->
                    IF pc[r] = "waiting" /\ waited[r] < wav_timeout[r]
                    THEN waited[r] + finished_timeout_extra
                    ELSE waited[r]]
    /\ UNCHANGED <<play_command, wavenet_client, cache, play_finished_events,
                   pc, say, wav_bytes, finished_event, wav_timeout, events, log,
                   synth_calls, cache_writes, hash_in,
                   hash_out>>

-----------------------------------------------------------------------------
(* on_message, lines 213-233 *)

\* The outcomes of the environment are drawn only where the code reaches
\* the call: a read only of an existing file, the player only in local mode.
OnMessageTtsSay(r) ==
    \E m \in SayInputs :
      \E read_fails \in IF cache[get_sentence_hash(m.text)] # NoFile
                        THEN BOOLEAN ELSE {FALSE} :
        \E synth \in IF read_fails \/ wavenet_client = None
                         \/ ( cache[get_sentence_hash(m.text)] # NoFile
                              /\ Truthy(cache[get_sentence_hash(m.text)]) )
                      THEN {"raise"} ELSE SynthOutcomes :
          \E play_fails \in IF Truthy(play_command) THEN BOOLEAN ELSE {FALSE} :
            \E wr \in IF Truthy(play_command) /\ ~play_fails
                       THEN WriteOutcomes ELSE {"ok"} :
                HandleSay(r, m, read_fails, synth, play_fails, wr)

\* the entry is popped but its event is never set
OnMessageAudioPlayFinished_NoSet(id) ==
    /\ play_finished_events' =
          IF id \in EventIds THEN [play_finished_events EXCEPT ![id] = NoEvent]
          ELSE play_finished_events
    /\ UNCHANGED <<play_command, wavenet_client, cache, pc, say, wav_bytes,
                   finished_event, wav_timeout, waited, events, log,
                   synth_calls, cache_writes, hash_in,
                   hash_out>>

\* the whole map is emptied when one entry is popped
OnMessageAudioPlayFinished_ClearAll(id) ==
    LET e == IF id \in EventIds THEN play_finished_events[id] ELSE NoEvent
    IN  /\ play_finished_events' =
              IF e # NoEvent THEN [k \in EventIds |-> NoEvent]
              ELSE play_finished_events
        /\ finished_event' =
              IF e # NoEvent THEN [finished_event EXCEPT ![e] = TRUE]
              ELSE finished_event
        /\ UNCHANGED <<play_command, wavenet_client, cache, pc, say, wav_bytes,
                       wav_timeout, waited, events, log, synth_calls,
                       cache_writes, hash_in, hash_out>>

\* one event shared by all requests: every signal sets the event of every task
OnMessageAudioPlayFinished_SharedEvent(id) ==
    /\ play_finished_events' =
          IF id \in EventIds THEN [play_finished_events EXCEPT ![id] = NoEvent]
          ELSE play_finished_events
    /\ finished_event' = [r \in Reqs |-> TRUE]
    /\ UNCHANGED <<play_command, wavenet_client, cache, pc, say, wav_bytes,
                   wav_timeout, waited, events, log, synth_calls,
                   cache_writes, hash_in, hash_out>>

\* lines 227-231
OnMessageAudioPlayFinished(id) ==
    LET e == IF id \in EventIds THEN play_finished_events[id] ELSE NoEvent
    IN  /\ play_finished_events' =
              IF id \in EventIds THEN [play_finished_events EXCEPT ![id] = NoEvent]
              ELSE play_finished_events
        /\ finished_event' =
              IF e # NoEvent THEN [finished_event EXCEPT ![e] = TRUE]
              ELSE finished_event
        /\ UNCHANGED <<play_command, wavenet_client, cache, pc, say, wav_bytes,
                       wav_timeout, waited, events, log, synth_calls,
                       cache_writes, hash_in,
                   hash_out>>

Next ==
    \/ \E r \in Reqs : OnMessageTtsSay(r)
    \/ \E r \in Reqs, wr \in WriteOutcomes : ResumeAfterPlay(r, wr)
    \/ \E r \in Reqs : WaitFinished(r)
    \/ \E r \in Reqs : WaitTimeout(r)
    \/ \E r \in Reqs : ResumeAfterError(r)
    \/ Tick
    \/ \E id \in SignalIds : OnMessageAudioPlayFinished(id)

Spec == Init /\ [][Next]_vars

\* The event loop runs every task that can run, the consumer of handle_say
\* asks for the next event, and time passes.
Progress ==
    \/ \E r \in Reqs, wr \in WriteOutcomes : ResumeAfterPlay(r, wr)
    \/ \E r \in Reqs : WaitFinished(r)
    \/ \E r \in Reqs : WaitTimeout(r)
    \/ \E r \in Reqs : ResumeAfterError(r)
    \/ Tick

FairSpec == Spec /\ WF_vars(Progress)

-----------------------------------------------------------------------------
(* get_sentence_hash applied to inputs drawn from bounded sets *)

Alphabet == {"a", "_", "-"}

RECURSIVE StringsOfLen(_)
StringsOfLen(n) ==
    IF n = 0 THEN {""}
    ELSE { s \o c : s \in StringsOfLen(n - 1), c \in Alphabet }

Strings == UNION { StringsOfLen(n) : n \in 1..MaxLen }

HashInputs ==
    [ text : Strings, voice : Strings, gender : Strings,
      sample_rate : {8, 16}, language_code : {"en", "e_"} ]

HashOf(x) == HashKey(x.text, x.language_code, x.voice, x.gender, x.sample_rate)

HashInit ==
    /\ ServerInit
    /\ play_command = None
    /\ wavenet_client = None
    /\ hash_in \in HashInputs
    /\ hash_out = None

GetSentenceHash ==
    /\ hash_out = None
    /\ hash_out' = HashOf(hash_in)
    /\ UNCHANGED <<hash_in, serverVars>>

HashNext == GetSentenceHash

HashSpec == HashInit /\ [][HashNext]_vars

-----------------------------------------------------------------------------
(* Properties *)

EventsOfType(r, t) == SelectSeq(events[r], LAMBDA e : e.type = t)

ErrorEvents(r) ==
    SelectSeq(events[r], LAMBDA e : e.type \in {"TtsError", "AudioPlayError"})

RemoteMode == play_command = None \/ play_command = ""

Started(r) == pc[r] # "idle"

\* the entry of play_finished_events that task r registered is still there
HoldsEntry(r) == \E id \in EventIds : play_finished_events[id] = r

IsSayFinishedOf(e, r) ==
    /\ e.type = "TtsSayFinished"
    /\ e.id = say[r].id
    /\ e.site_id = say[r].site_id
    /\ e.session_id = say[r].session_id

\* C1: every SayRequest that handle_say takes up gets exactly one
\* TtsSayFinished, whatever failed or timed out on the way: never more than
\* one, eventually one, the last event of the task, and it carries the id,
\* site id and session id of the request.
C1_ExactlyOneSayFinished ==
    \A r \in Reqs :
        /\ [](Len(EventsOfType(r, "TtsSayFinished")) <= 1)
        /\ [](pc[r] = "done" =>
                /\ Len(EventsOfType(r, "TtsSayFinished")) = 1
                /\ IsSayFinishedOf(events[r][Len(events[r])], r))
        /\ (Started(r) ~> (pc[r] = "done"))

\* a task that failed (here: in the cache write or the duration estimate,
\* after its audio was obtained) has finished
C1_Witness ==
    \E r \in Reqs :
        /\ pc[r] = "done"
        /\ Truthy(wav_bytes[r])
        /\ Len(EventsOfType(r, "TtsError")) = 1

\* C2: at most one error event (AudioPlayError or TtsError) is emitted for
\* a SayRequest.
C2_AtMostOneErrorEvent ==
    \A r \in Reqs : Len(ErrorEvents(r)) <= 1

\* C3: in remote mode a task that obtained non-empty audio has emitted
\* exactly one AudioPlayBytes, with those bytes, for the site of the request.
C3_RemoteOnePlayRequest ==
    \A r \in Reqs :
        (RemoteMode /\ Started(r) /\ Truthy(wav_bytes[r])) =>
            /\ Len(EventsOfType(r, "AudioPlayBytes")) = 1
            /\ events[r][1].type = "AudioPlayBytes"
            /\ events[r][1].wav_bytes = wav_bytes[r]
            /\ events[r][1].site_id = say[r].site_id

\* a remote-mode task that took its audio from the cache has finished
C3_Witness ==
    \E r \in Reqs :
        /\ RemoteMode /\ pc[r] = "done"
        /\ Truthy(wav_bytes[r]) /\ synth_calls[r] = 0
        /\ Len(EventsOfType(r, "AudioPlayBytes")) = 1

\* C4: with a local play command configured no task ever emits an
\* AudioPlayBytes, whether the player succeeded or failed.
C4_LocalNoPlayRequest ==
    \A r \in Reqs :
        ~RemoteMode => Len(EventsOfType(r, "AudioPlayBytes")) = 0

\* in local mode one task finished after the player failed and another after
\* the player succeeded
C4_Witness ==
    /\ ~RemoteMode
    /\ \E r \in Reqs : pc[r] = "done" /\ Len(EventsOfType(r, "AudioPlayError")) = 1
    /\ \E r \in Reqs : pc[r] = "done" /\ finished_event[r]

\* C5: in remote mode a wait that no completion signal has ended by the time
\* wav_timeout (the estimated duration plus the grace period) has passed
\* ends: the task leaves wait_for only by emitting TtsSayFinished as its next
\* event, so the timeout adds no error event.
C5_TimeoutProceedsWithoutError ==
    /\ [](\A r \in Reqs :
            (pc[r] = "waiting" /\ wav_bytes[r] = "wavA") => wav_timeout[r] = 500)
    /\ [][ \A r \in Reqs :
              (RemoteMode /\ pc[r] = "waiting" /\ ~finished_event[r]
                 /\ pc'[r] # "waiting") =>
                  /\ waited[r] >= wav_timeout[r]
                  /\ pc'[r] = "done"
                  /\ Len(events'[r]) = Len(events[r]) + 1
                  /\ SubSeq(events'[r], 1, Len(events[r])) = events[r]
                  /\ events'[r][Len(events'[r])].type = "TtsSayFinished" ]_vars
    /\ \A r \in Reqs :
          (RemoteMode /\ pc[r] = "waiting" /\ ~finished_event[r]
             /\ waited[r] >= wav_timeout[r])
          ~> (pc[r] = "done" /\ Len(ErrorEvents(r)) = 0)

\* a remote-mode task has finished through the timeout
C5_Witness ==
    \E r \in Reqs :
        /\ RemoteMode /\ pc[r] = "done"
        /\ log[r] # {}
        /\ ~finished_event[r]
        /\ Len(ErrorEvents(r)) = 0

KeyOf(m) == get_sentence_hash(m.text)

\* a task that is inside wait_for with its event set leaves the wait only by
\* finishing: no timeout warning, TtsSayFinished as its next event, and its
\* cache write already done
ResumesBySignal ==
    \A r \in Reqs :
        (RemoteMode /\ pc[r] = "waiting" /\ finished_event[r]
           /\ pc'[r] # "waiting") =>
            /\ pc'[r] = "done"
            /\ log'[r] = {}
            /\ Len(events'[r]) = Len(events[r]) + 1
            /\ events'[r][Len(events'[r])].type = "TtsSayFinished"
            /\ cache_writes[r] = 1

\* C6 as stated: in remote mode every completion signal whose id is the
\* request id of a task that is inside wait_for, its timeout not yet passed,
\* releases that task, which then finishes without the timeout branch and
\* with its cache file written.
C6_MatchingSignalReleasesWaiter ==
    /\ [][ \A r \in Reqs, id \in SignalIds :
              ( OnMessageAudioPlayFinished(id) /\ RemoteMode
                /\ pc[r] = "waiting" /\ waited[r] < wav_timeout[r]
                /\ id = RequestId(r, say[r]) ) => finished_event'[r] ]_vars
    /\ [][ResumesBySignal]_vars

\* C6 (amended): the same, for a signal that arrives while the entry of
\* play_finished_events under that id is still the one this task registered;
\* the task is released by the signal, emits nothing before the signal is
\* processed, and then finishes with TtsSayFinished, without the timeout
\* branch and with its cache file written.
C6_OwnEntrySignalReleasesWaiter ==
    /\ [][ \A r \in Reqs, id \in SignalIds :
              ( OnMessageAudioPlayFinished(id) /\ RemoteMode
                /\ pc[r] = "waiting" /\ waited[r] < wav_timeout[r]
                /\ id = RequestId(r, say[r])
                /\ play_finished_events[id] = r ) =>
                  /\ finished_event'[r]
                  /\ events'[r] = events[r]
                  /\ pc'[r] = "waiting" ]_vars
    /\ [][ResumesBySignal]_vars
    /\ \A r \in Reqs :
          (RemoteMode /\ pc[r] = "waiting" /\ finished_event[r])
          ~> (pc[r] = "done" /\ log[r] = {} /\ cache_writes[r] = 1)

\* a remote-mode task was released by its signal and has finished
C6_Witness ==
    \E r \in Reqs :
        /\ RemoteMode /\ pc[r] = "done"
        /\ finished_event[r] /\ log[r] = {}
        /\ cache_writes[r] = 1
        /\ events[r][Len(events[r])].type = "TtsSayFinished"

C8_NoAudioOneSynthesisError ==
    \A r \in Reqs :
        (Started(r) /\ ~Truthy(wav_bytes[r])) =>
            /\ pc[r] \in {"yield_TtsError", "done"}
            /\ Len(events[r]) = (IF pc[r] = "done" THEN 2 ELSE 1)
            /\ events[r][1].type = "TtsError"
            /\ events[r][1].context = say[r].id
            /\ events[r][1].site_id = say[r].site_id
            /\ events[r][1].session_id = say[r].session_id
            /\ pc[r] = "done" => events[r][2].type = "TtsSayFinished"
            /\ cache_writes[r] = 0
            /\ ~HoldsEntry(r)

\* a task whose provider call gave no audio has finished
C8_Witness ==
    \E r \in Reqs :
        /\ pc[r] = "done"
        /\ ~Truthy(wav_bytes[r])
        /\ synth_calls[r] = 1
        /\ Len(events[r]) = 2

\* C9: once a task has emitted TtsSayFinished, play_finished_events holds no
\* entry that the task registered.
C9_NoEntryAfterFinished ==
    \A r \in Reqs : pc[r] = "done" => ~HoldsEntry(r)

\* C10: get_sentence_hash gives the same key for the same input and
\* different keys for any two inputs that differ in some field.
C10_FingerprintInjective ==
    hash_out # None =>
        \A y \in HashInputs :
            /\ y = hash_in => HashOf(y) = hash_out
            /\ y # hash_in => HashOf(y) # hash_out

\* C11: in remote mode a task writes its cache file only after its wait for
\* the end of playback is over: while it has emitted AudioPlayBytes and has
\* not left wait_for, it has written nothing.
C11_CacheWriteAfterWait ==
    \A r \in Reqs :
        (RemoteMode /\ pc[r] \in {"yield_AudioPlayBytes", "waiting"}) =>
            cache_writes[r] = 0

\* C12: the events of one task come in a fixed order. Events are only ever
\* appended, one at a time; TtsSayFinished is the last one and nothing is
\* emitted after it; every AudioPlayBytes or AudioPlayError comes before any
\* TtsError; a TtsError has the id of the request as its context, and its
\* site and session, and the event right after it is TtsSayFinished: while
\* the TtsError is the last event the task is suspended at its yield.
C12_EventOrder ==
    /\ [](\A r \in Reqs : \A i \in 1..Len(events[r]) :
            /\ events[r][i].type = "TtsSayFinished" =>
                   (i = Len(events[r]) /\ pc[r] = "done")
            /\ events[r][i].type \in {"AudioPlayBytes", "AudioPlayError"} =>
                   \A j \in 1..Len(events[r]) :
                       events[r][j].type = "TtsError" => i < j
            /\ events[r][i].type = "TtsError" =>
                   /\ events[r][i].context = say[r].id
                   /\ events[r][i].site_id = say[r].site_id
                   /\ events[r][i].session_id = say[r].session_id
                   /\ IF i = Len(events[r])
                      THEN pc[r] = "yield_TtsError"
                      ELSE /\ i + 1 = Len(events[r])
                           /\ IsSayFinishedOf(events[r][i + 1], r))
    /\ [][ \A r \in Reqs :
              /\ \/ events'[r] = events[r]
                 \/ /\ Len(events'[r]) = Len(events[r]) + 1
                    /\ SubSeq(events'[r], 1, Len(events[r])) = events[r]
              /\ pc[r] = "done" => events'[r] = events[r] ]_vars

\* a task has emitted AudioPlayBytes, then a TtsError, then TtsSayFinished,
\* for a request that has an id, a site and a session
C12_Witness ==
    \E r \in Reqs :
        /\ pc[r] = "done" /\ Len(events[r]) = 3
        /\ events[r][1].type = "AudioPlayBytes"
        /\ events[r][2].type = "TtsError"
        /\ events[r][3].type = "TtsSayFinished"
        /\ Truthy(say[r].id) /\ Truthy(say[r].session_id)

\* C13: in local mode, when the player subprocess fails, the task emits an
\* AudioPlayError for the request and goes on: resumed after that yield it
\* writes the cache file with its audio and enters wait_for, and it always
\* reaches TtsSayFinished. The failed playback alone brings no TtsError: a
\* TtsError after an AudioPlayError comes only from a cache write or a
\* duration estimate that failed itself.
C13_PlayErrorDoesNotAbort ==
    /\ [](\A r \in Reqs :
            pc[r] = "yield_AudioPlayError" =>
                /\ ~RemoteMode
                /\ Len(events[r]) = 1
                /\ events[r][1].type = "AudioPlayError"
                /\ events[r][1].context = say[r].id
                /\ events[r][1].site_id = say[r].site_id
                /\ events[r][1].session_id = say[r].session_id
                /\ cache_writes[r] = 0)
    /\ [][ \A r \in Reqs :
              (pc[r] = "yield_AudioPlayError" /\ pc'[r] # pc[r]) =>
                  \/ /\ pc'[r] = "waiting"
                     /\ events'[r] = events[r]
                     /\ cache_writes'[r] = 1
                     /\ cache'[KeyOf(say[r])] = wav_bytes[r]
                  \/ /\ pc'[r] = "yield_TtsError"
                     /\ Len(events'[r]) = 2
                     /\ \/ /\ events'[r][2].error = "OSError"
                           /\ cache_writes'[r] = 0
                        \/ /\ events'[r][2].error = "wave.Error"
                           /\ get_wav_duration_raises(wav_bytes[r])
                           /\ cache_writes'[r] = 1
                           /\ cache'[KeyOf(say[r])] = wav_bytes[r] ]_vars
    /\ \A r \in Reqs :
          (pc[r] = "yield_AudioPlayError")
          ~> (pc[r] = "done" /\ Len(EventsOfType(r, "TtsSayFinished")) = 1)

\* in local mode a task whose player failed has finished with an
\* AudioPlayError, no TtsError, its audio in the cache file, and
\* TtsSayFinished
C13_Witness ==
    \E r \in Reqs :
        /\ ~RemoteMode /\ pc[r] = "done"
        /\ Len(EventsOfType(r, "AudioPlayError")) = 1
        /\ Len(EventsOfType(r, "TtsError")) = 0
        /\ cache_writes[r] = 1
        /\ cache[KeyOf(say[r])] = wav_bytes[r]
        /\ events[r][Len(events[r])].type = "TtsSayFinished"

\* C14: in local mode, after the player subprocess has succeeded, the event
\* of the task is already set when it enters wait_for: the wait returns at
\* once, whatever time has passed and whatever the map holds, the timeout
\* branch is never taken, and the task reaches TtsSayFinished with no
\* AudioPlayFinished at all.
C14_LocalSuccessNeverBlocks ==
    /\ [](\A r \in Reqs :
            (~RemoteMode /\ Started(r)
               /\ Len(EventsOfType(r, "AudioPlayError")) = 0) =>
                /\ pc[r] = "waiting" => (finished_event[r] /\ ENABLED WaitFinished(r))
                /\ log[r] = {}
                /\ \A id \in EventIds : play_finished_events[id] = NoEvent)
    /\ [][ \A r \in Reqs :
              (~RemoteMode /\ pc[r] = "waiting"
                 /\ Len(EventsOfType(r, "AudioPlayError")) = 0
                 /\ pc'[r] # "waiting") =>
                  /\ pc'[r] = "done"
                  /\ log'[r] = {}
                  /\ events'[r] = <<TtsSayFinished(say[r])>> ]_vars
    /\ \A r \in Reqs :
          (~RemoteMode /\ pc[r] = "waiting"
             /\ Len(EventsOfType(r, "AudioPlayError")) = 0)
          ~> (pc[r] = "done" /\ log[r] = {})

\* in local mode a task whose player succeeded has finished with its event
\* set, no timeout warning, and TtsSayFinished as its only event
C14_Witness ==
    \E r \in Reqs :
        /\ ~RemoteMode /\ pc[r] = "done"
        /\ Truthy(wav_bytes[r])
        /\ finished_event[r] /\ log[r] = {}
        /\ Len(events[r]) = 1
        /\ events[r][1].type = "TtsSayFinished"

\* C15: an AudioPlayFinished with id X touches the entry under X and nothing
\* else. Every entry under another key stays, every event of another task
\* keeps its state, so no task registered under another id is released; no
\* event is emitted and no task moves; the entry under X, if there is one, is
\* removed and its event set; with no entry under X the map and all events
\* stay as they were.
C15_SignalTouchesOnlyItsEntry ==
    [][ \A id \in SignalIds :
          OnMessageAudioPlayFinished(id) =>
              LET e == IF id \in EventIds THEN play_finished_events[id]
                       ELSE NoEvent
              IN  /\ \A k \in EventIds \ {id} :
                         play_finished_events'[k] = play_finished_events[k]
                  /\ \A r \in Reqs :
                         (r # e \/ RequestId(r, say[r]) # id) =>
                             finished_event'[r] = finished_event[r]
                  /\ events' = events
                  /\ pc' = pc
                  /\ e = NoEvent =>
                         /\ play_finished_events' = play_finished_events
                         /\ finished_event' = finished_event
                  /\ e # NoEvent =>
                         /\ finished_event'[e]
                         /\ play_finished_events'[id] = NoEvent ]_vars

\* two tasks are in flight under different ids; the signal of one was
\* handled: its entry is gone and its event set, the other still holds its
\* entry with its event unset
C15_Witness ==
    \E r1, r2 \in Reqs :
        /\ RemoteMode /\ r1 # r2
        /\ RequestId(r1, say[r1]) # RequestId(r2, say[r2])
        /\ pc[r1] \in {"yield_AudioPlayBytes", "waiting"}
        /\ pc[r2] \in {"yield_AudioPlayBytes", "waiting"}
        /\ finished_event[r1]
        /\ play_finished_events[RequestId(r1, say[r1])] = NoEvent
        /\ play_finished_events[RequestId(r2, say[r2])] = r2
        /\ ~finished_event[r2]

\* the step in which a remote-mode task emits its AudioPlayBytes has put its
\* event into the map first, under the request id the AudioPlayBytes
\* carries: the id of the request, or an id of its own when that is missing
RegisteredBeforePlayBytes ==
    \A r \in Reqs :
        (pc[r] = "idle" /\ pc'[r] = "yield_AudioPlayBytes") =>
            LET rid == events'[r][1].request_id
            IN  /\ events'[r][1].type = "AudioPlayBytes"
                /\ Truthy(say'[r].id) => rid = say'[r].id
                /\ ~Truthy(say'[r].id) =>
                       /\ Truthy(rid)
                       /\ \A m \in SayInputs : rid # m.id
                       /\ \A q \in Reqs \ {r} : rid # RequestId(q, say'[q])
                /\ rid \in EventIds
                /\ play_finished_events'[rid] = r

\* a task that has emitted AudioPlayBytes and has not finished its wait
InFlight(r) ==
    \/ pc[r] = "yield_AudioPlayBytes"
    \/ pc[r] = "waiting" /\ waited[r] < wav_timeout[r]

\* C16 as stated: in remote mode the event is registered under the request
\* id of the AudioPlayBytes before that is handed out, and every
\* AudioPlayFinished with that id handled afterwards, before the wait has
\* begun or during it, sets the event of the task, whose wait then ends
\* without the timeout branch.
C16_NoSignalLost ==
    /\ [][RegisteredBeforePlayBytes]_vars
    /\ [][ \A r \in Reqs, id \in SignalIds :
              ( OnMessageAudioPlayFinished(id) /\ RemoteMode /\ InFlight(r)
                /\ id = events[r][1].request_id ) => finished_event'[r] ]_vars
    /\ [][ \A r \in Reqs :
              (RemoteMode /\ pc[r] = "waiting" /\ finished_event[r]
                 /\ pc'[r] # "waiting") => (pc'[r] = "done" /\ log'[r] = {}) ]_vars

\* C16 (amended): the same, for an AudioPlayFinished handled while the entry
\* under that id is still the one this task registered (no later request
\* with the same id has replaced it): it sets the event of the task, before
\* the wait has begun or during it, and the task then reaches TtsSayFinished
\* without the timeout branch.
C16_NoSignalLostToOwnEntry ==
    /\ [][RegisteredBeforePlayBytes]_vars
    /\ [][ \A r \in Reqs, id \in SignalIds :
              ( OnMessageAudioPlayFinished(id) /\ RemoteMode /\ InFlight(r)
                /\ id = events[r][1].request_id
                /\ play_finished_events[id] = r ) =>
                  /\ finished_event'[r]
                  /\ pc'[r] = pc[r] ]_vars
    /\ [][ \A r \in Reqs :
              (RemoteMode /\ pc[r] = "waiting" /\ finished_event[r]
                 /\ pc'[r] # "waiting") => (pc'[r] = "done" /\ log'[r] = {}) ]_vars
    /\ \A r \in Reqs :
          (RemoteMode /\ InFlight(r) /\ finished_event[r])
          ~> (pc[r] = "done" /\ log[r] = {})

\* the signal of a remote-mode task was handled after its AudioPlayBytes and
\* before the task has entered wait_for: the event is set, the entry gone
C16_Witness ==
    \E r \in Reqs :
        /\ RemoteMode /\ pc[r] = "yield_AudioPlayBytes"
        /\ finished_event[r]
        /\ play_finished_events[events[r][1].request_id] = NoEvent

\* C17: a cache file, once it exists, is never deleted and never changes:
\* every step, and so every later write to its fingerprint, leaves the file
\* with the bytes it holds.
C17_CacheFileNeverChanges ==
    [][ \A k \in CacheKeys :
          cache[k] # NoFile => cache'[k] = cache[k] ]_vars

\* a remote-mode task that has emitted AudioPlayBytes and not yet left
\* wait_for
Pending(r) == RemoteMode /\ pc[r] \in {"yield_AudioPlayBytes", "waiting"}

\* the entry of a pending task was replaced before any signal set its event
Replaced(r) ==
    /\ Pending(r)
    /\ ~finished_event[r]
    /\ play_finished_events[events[r][1].request_id] # r

\* C18: two remote-mode requests with the same request id are in flight
\* together. The registration of the second replaces the entry of the first,
\* the one slot of that id. A matching AudioPlayFinished handled then sets
\* the event of the later task only and empties the slot; the event of the
\* earlier task is never set, its wait ends by the timeout alone; and both
\* tasks emit exactly one TtsSayFinished.
C18_DuplicateIdLaterWins ==
    /\ [][ \A r1, r2 \in Reqs :
              ( r1 # r2 /\ Pending(r1)
                /\ pc[r2] = "idle" /\ pc'[r2] = "yield_AudioPlayBytes"
                /\ events'[r2][1].request_id = events[r1][1].request_id ) =>
                  /\ play_finished_events'[events[r1][1].request_id] = r2
                  /\ \A k \in EventIds : play_finished_events'[k] # r1 ]_vars
    /\ [][ \A r1, r2 \in Reqs, id \in SignalIds :
              ( OnMessageAudioPlayFinished(id) /\ r1 # r2
                /\ Replaced(r1) /\ Pending(r2)
                /\ events[r1][1].request_id = id
                /\ events[r2][1].request_id = id
                /\ play_finished_events[id] = r2 ) =>
                  /\ finished_event'[r2]
                  /\ ~finished_event'[r1]
                  /\ play_finished_events'[id] = NoEvent ]_vars
    /\ [][ \A r \in Reqs :
              Replaced(r) =>
                  /\ ~finished_event'[r]
                  /\ (pc[r] = "waiting" /\ pc'[r] # "waiting") =>
                         /\ waited[r] >= wav_timeout[r]
                         /\ pc'[r] = "done"
                         /\ log'[r] # {} ]_vars
    /\ [](\A r \in Reqs :
            pc[r] = "done" => Len(EventsOfType(r, "TtsSayFinished")) = 1)
    /\ \A r \in Reqs :
          Pending(r)
          ~> (pc[r] = "done" /\ Len(EventsOfType(r, "TtsSayFinished")) = 1)

\* two remote-mode tasks with the same request id were in flight together and
\* both have finished: the later one released by the signal, the earlier one
\* by its timeout, each with one TtsSayFinished
C18_Witness ==
    \E r1, r2 \in Reqs :
        /\ RemoteMode /\ r1 < r2
        /\ pc[r1] = "done" /\ pc[r2] = "done"
        /\ Truthy(say[r1].id) /\ say[r1].id = say[r2].id
        /\ Len(events[r1]) = 2 /\ Len(events[r2]) = 2
        /\ events[r1][1].type = "AudioPlayBytes"
        /\ events[r2][1].type = "AudioPlayBytes"
        /\ events[r1][1].request_id = events[r2][1].request_id
        /\ ~finished_event[r1] /\ log[r1] # {}
        /\ finished_event[r2] /\ log[r2] = {}
        /\ waited[r2] < wav_timeout[r2]
        /\ events[r1][2].type = "TtsSayFinished"
        /\ events[r2][2].type = "TtsSayFinished"

\* a local-mode task whose player subprocess has failed
LocalPlayFailed(r) ==
    /\ ~RemoteMode
    /\ Len(events[r]) >= 1
    /\ events[r][1].type = "AudioPlayError"

\* C19: in local mode, once the player subprocess has failed, the event of
\* the task is not set and is under no key of the map, and stays so: no
\* AudioPlayFinished, whatever its id, changes anything of the task. The
\* task leaves wait_for only when its timeout, the estimated duration plus
\* the grace period, has passed, through the timeout branch, and so reaches
\* TtsSayFinished.
C19_FailedLocalPlayWaitsForTimeout ==
    /\ [](\A r \in Reqs :
            LocalPlayFailed(r) =>
                /\ ~finished_event[r]
                /\ \A k \in EventIds : play_finished_events[k] # r
                /\ pc[r] = "waiting" =>
                       wav_timeout[r] = get_wav_duration(wav_bytes[r])
                                          + finished_timeout_extra
                /\ (pc[r] = "done" /\ Len(EventsOfType(r, "TtsError")) = 0) =>
                       (log[r] # {} /\ waited[r] >= wav_timeout[r]))
    /\ [][ \A r \in Reqs, id \in SignalIds :
              (OnMessageAudioPlayFinished(id) /\ LocalPlayFailed(r)) =>
                  /\ finished_event'[r] = finished_event[r]
                  /\ pc'[r] = pc[r]
                  /\ events'[r] = events[r]
                  /\ waited'[r] = waited[r]
                  /\ log'[r] = log[r] ]_vars
    /\ [][ \A r \in Reqs :
              (LocalPlayFailed(r) /\ pc[r] = "waiting" /\ pc'[r] # "waiting") =>
                  /\ waited[r] >= wav_timeout[r]
                  /\ pc'[r] = "done"
                  /\ log'[r] # {}
                  /\ events'[r] = Append(events[r], TtsSayFinished(say[r])) ]_vars
    /\ \A r \in Reqs :
          (LocalPlayFailed(r) /\ pc[r] = "waiting")
          ~> (pc[r] = "done" /\ log[r] # {})

\* in local mode a task whose player failed has waited out its timeout and
\* finished, its event still unset
C19_Witness ==
    \E r \in Reqs :
        /\ LocalPlayFailed(r) /\ pc[r] = "done"
        /\ ~finished_event[r]
        /\ waited[r] >= wav_timeout[r] /\ wav_timeout[r] > 0
        /\ log[r] # {}
        /\ Len(events[r]) = 2
        /\ events[r][2].type = "TtsSayFinished"

====
